---- MODULE Spec2Model ----
(***************************************************************************)
(* RABBIT-ng: the per-contributor classification loop (orchestrator), the  *)
(* paginated, rate-limit-aware event source and its retry policy.          *)
(*                                                                         *)
(* One behaviour of the model is one run of run_rabbit over a login list.  *)
(* The program is single-threaded; a step of the model is the code that    *)
(* runs between two suspension points (an HTTP request, a yielded batch,   *)
(* a yielded result).  The upstream API and the classifier are the         *)
(* environment: every HTTP response and every model probability is chosen  *)
(* from a small set.                                                       *)
(*                                                                         *)
(* Units: probabilities are in 1/PScale, confidences in thousandths,       *)
(* delays in half-seconds (so that 10 s * 2.5 stays an integer).           *)
(***************************************************************************)
EXTENDS Integers, Sequences, FiniteSets, TLC

(* ------------------------------ bounds -------------------------------- *)

\* longest login list given to run_rabbit
MaxLogins == 2

\* most responses that make the event source request again (a rate limit
\* or a retryable status) the upstream gives to one call of query_user_type
\* or to one iteration of query_events
MaxFaults == 3

\* largest max_attempts given to the retry decorator run on its own
MaxAttempts == 3

\* longest activity list given to the feature extractor
MaxActivities == 3

\* longest activity list the mapper gives to predict_user_type run on its
\* own
MaxMapped == 2

\* longest series given to the Gini helper on its own
MaxSeries == 3

\* deepest nesting of query_user_type calls the interpreter allows before it
\* raises RecursionError (a scaled-down recursion limit)
RecursionLimit == 3

\* the retryable answers and the rate-limit waits of one call are counted
\* up to this number
MaxCounted == 8

(* ------------------------- program constants --------------------------- *)

\* per_page parameter of the events request, and the "page is full" test
PerPage == 100

\* @retry(max_attempts=3, delay=10, backoff=2.5) on both HTTP operations
max_attempts == 3

\* delay = 10 seconds, in half-seconds
delay == 20

\* backoff = 2.5 = BackoffNum / BackoffDen
BackoffNum == 5

BackoffDen == 2

\* decision boundary of the classifier, in 1/PScale
PScale == 10000

(* ------------------------ environment alphabets ------------------------ *)

\* the logins that can be requested, in the order they are requested
Logins == <<"alice", "bob", "carol">>

MinEventsSet == {5, 200}

\* min_confidence in thousandths
MinConfidenceSet == {900, 1000}

MaxQueriesSet == {1, 2, 3}

\* number of events in a returned page
PageSizes == {0, 50, PerPage}

UserTypes == {"User", "Organization", "Bot"}

\* P(bot) returned by the model, in 1/PScale
Probabilities == {500, 9999}

\* header values as Python sees them: absent, a string of digits, or an int
NoHeader == [t |-> "none", v |-> 0]

StrHeader(n) == [t |-> "str", v |-> n]

IntHeader(n) == [t |-> "int", v |-> n]

Truthy_nonzero(h) == h.t # "none" /\ h.v # 0

\* Python truthiness of headers.get(...): None and 0 are falsy, a non-empty
\* string (also "0") is truthy
Truthy(h) == (h.t = "str") \/ (h.t = "int" /\ h.v # 0)

\* Python `h == 0`: a string never equals an int
PyEqZero(h) == h.t = "int" /\ h.v = 0

Response(status, retry_after, remaining, reset_in, rate_reason, body) ==
  [status |-> status, retry_after |-> retry_after, remaining |-> remaining,
   reset_in |-> reset_in, rate_reason |-> rate_reason, body |-> body]

\* a JSON body: the `type` of a user object, or a list of `size` events
NoBody == [type |-> "none", size |-> 0]

UserBody(t) == [type |-> t, size |-> 0]

EventsBody(n) == [type |-> "none", size |-> n]

\* responses whose body is not read
ErrorResponses ==
  { Response(404, NoHeader, NoHeader, 0, FALSE, NoBody),
    Response(500, NoHeader, NoHeader, 0, FALSE, NoBody),
    Response(418, NoHeader, NoHeader, 0, FALSE, NoBody),
    Response(403, StrHeader(1), NoHeader, 0, FALSE, NoBody),
    Response(429, NoHeader, StrHeader(0), 1, TRUE, NoBody) }

UserResponses ==
  { Response(200, NoHeader, NoHeader, 0, FALSE, UserBody(t)) : t \in UserTypes }
  \cup ErrorResponses

EventResponses ==
  { Response(200, NoHeader, NoHeader, 0, FALSE, EventsBody(n)) : n \in PageSizes }
  \cup ErrorResponses

(* --------------------------- error taxonomy ---------------------------- *)

NoReset == -1

Ok(body) == [kind |-> "ok", body |-> body, reset |-> NoReset]

Err(kind) == [kind |-> kind, body |-> NoBody, reset |-> NoReset]

\* RateLimitExceededError(reset_time); reset is in seconds from now
RateLimit(reset) ==
  [kind |-> "RateLimitExceededError", body |-> NoBody, reset |-> reset]

\* errors.py: every class derives from RabbitErrors
IsRabbitError(kind) ==
  kind \in {"RabbitErrors", "RateLimitExceededError", "NotFoundError",
            "RetryableError", "APIRequestError"}

(* ------------------------- _handle_api_response ------------------------ *)

_handle_api_response_408(key, response) ==
  CASE response.status = 200 -> Ok(response.body)
    [] response.status \in {403, 429} ->
         IF Truthy(response.retry_after)
           THEN RateLimit(response.retry_after.v)
         ELSE IF PyEqZero(response.remaining)
           THEN RateLimit(IF response.reset_in > 0 THEN response.reset_in ELSE 0)
         ELSE IF ~key /\ response.rate_reason
           THEN RateLimit(NoReset)
         ELSE Err("RetryableError")
    [] response.status = 404 -> Err("NotFoundError")
    [] response.status \in {500, 504} -> Err("RetryableError")
    [] OTHER -> Err("APIRequestError")

_handle_api_response_any_key(key, response) ==
  CASE response.status = 200 -> Ok(response.body)
    [] response.status \in {403, 429} ->
         IF Truthy(response.retry_after)
           THEN RateLimit(response.retry_after.v)
         ELSE IF PyEqZero(response.remaining)
           THEN RateLimit(IF response.reset_in > 0 THEN response.reset_in ELSE 0)
         ELSE IF response.rate_reason
           THEN RateLimit(NoReset)
         ELSE Err("RetryableError")
    [] response.status = 404 -> Err("NotFoundError")
    [] response.status \in {500, 504, 408} -> Err("RetryableError")
    [] OTHER -> Err("APIRequestError")

_handle_api_response(key, response) ==
  CASE response.status = 200 -> Ok(response.body)
    [] response.status \in {403, 429} ->
         IF Truthy(response.retry_after)
           THEN RateLimit(response.retry_after.v)
         ELSE IF PyEqZero(response.remaining)
           THEN RateLimit(IF response.reset_in > 0 THEN response.reset_in ELSE 0)
         ELSE IF ~key /\ response.rate_reason
           THEN RateLimit(NoReset)
         ELSE Err("RetryableError")
    [] response.status = 404 -> Err("NotFoundError")
    [] response.status \in {500, 504, 408} -> Err("RetryableError")
    [] OTHER -> Err("APIRequestError")

(* ------------------------------ retry ---------------------------------- *)

\* a running call of a @retry wrapper: the loop index and current_delay
NewFrame == [attempt |-> 0, current_delay |-> delay]

Backoff_default(d) == d * 2

\* current_delay *= backoff
Backoff(d) == (d * BackoffNum) \div BackoffDen

retry_again_once_more(frame) == frame.attempt < max_attempts

\* wrapper, `except RetryableError` branch: sleep and go round the loop again
\* while attempt < max_attempts - 1, otherwise leave the loop and raise
retry_again(frame) == frame.attempt < max_attempts - 1

retry_next(frame) ==
  [attempt |-> frame.attempt + 1, current_delay |-> Backoff(frame.current_delay)]

\* A RetryableError raised by the function of the innermost frame.  A frame
\* that has attempts left sleeps and calls its function again; a frame that
\* has none raises the error into the frame that called it (query_user_type
\* calls itself, decorated, from inside its rate-limit handler).
\* Result: the frames left, the sleeps made, and whether the error left
\* the outermost frame.
RECURSIVE unwind(_)
unwind(frames) ==
  IF frames = <<>>
    THEN [stack |-> <<>>, slept |-> <<>>, raised |-> TRUE]
  ELSE LET top == frames[Len(frames)]
           below == SubSeq(frames, 1, Len(frames) - 1)
       IN IF retry_again(top)
            THEN [stack |-> Append(below, retry_next(top)),
                  slept |-> <<top.current_delay>>, raised |-> FALSE]
            ELSE unwind(below)

(* --------------------------- rate-limit wait --------------------------- *)

must_raise_no_wait(no_wait, err) == no_wait

\* `if self.no_wait or not rate_limit_e.reset_time: raise`
must_raise(no_wait, err) == no_wait \/ err.reset = NoReset

\* RateLimitExceededError.wait_reset: sleeps only for a reset in the future;
\* the sleep is in half-seconds like the retry delays
wait_reset(err) == IF err.reset > 0 THEN <<2 * err.reset>> ELSE <<>>

(* ------------------------------ classifier ----------------------------- *)

\* len() of a list built by extending it with the batches
RECURSIVE count(_)
count(batches) ==
  IF batches = <<>> THEN 0 ELSE batches[1].size + count(Tail(batches))

\* the sentinel "-" of ContributorResult.confidence
NoConfidence == -1

\* a feature row stands for the event list it was computed from: the
\* concatenation of the first `batches` pages
NoFeatures == [computed |-> FALSE, batches |-> 0]

Features(events) == [computed |-> TRUE, batches |-> Len(events)]

ContributorResult(contributor, user_type, confidence, features) ==
  [contributor |-> contributor, user_type |-> user_type,
   confidence |-> confidence, features |-> features]

Abs(x) == IF x < 0 THEN -x ELSE x

\* numpy round(3) of x / PScale, in thousandths (round half to even)
Round3(x) ==
  LET q == (x * 1000) \div PScale
      r == (x * 1000) % PScale
  IN IF 2 * r < PScale THEN q
     ELSE IF 2 * r > PScale THEN q + 1
     ELSE IF q % 2 = 0 THEN q ELSE q + 1

predict_strict(p) ==
  [user_type |-> IF 2 * p > PScale THEN "Bot" ELSE "Human",
   confidence |-> Round3(Abs(2 * p - PScale))]

\* ONNXPredictor.predict on a row for which the model says P(bot) = p
predict(p) ==
  [user_type |-> IF 2 * p >= PScale THEN "Bot" ELSE "Human",
   confidence |-> Round3(Abs(2 * p - PScale))]

\* what the pipeline does on one event list: the mapper finds no activity,
\* the model returns a probability, or a stage fails with an exception that
\* is not of the taxonomy
PipelineOutcomes ==
  {[kind |-> "empty", p |-> 0], [kind |-> "raise", p |-> 0]}
  \cup {[kind |-> "prob", p |-> p] : p \in Probabilities}

\* predict_user_type
predict_user_type(username, events, outcome) ==
  IF outcome.kind = "empty"
    THEN ContributorResult(username, "Unknown", NoConfidence, NoFeatures)
    ELSE ContributorResult(username, predict(outcome.p).user_type,
                           predict(outcome.p).confidence,
                           Features(events))

(* ------------------------------ query_events --------------------------- *)

_check_events_left(events) == events.size = PerPage

more_pages_extra(p, max_queries) == p <= max_queries + 1

\* `while page <= self.max_queries`
more_pages(p, max_queries) == p <= max_queries


(* ------------------------------ orchestrator --------------------------- *)

enough_events_always(events, min_events) == TRUE

\* enough events have been accumulated to run the pipeline
enough_events(events, min_events) == count(events) >= min_events

known_type_org(user_type) == user_type = "Organization"

\* query_user_type answers that need no classification
known_type(user_type) == user_type \in {"Organization", "Bot"}

cumulative_latest(events, batch) == <<batch>>

cumulative_newest_first(events, batch) == <<batch>> \o events

\* the list the pipeline is run on: the batches accumulated so far
cumulative(events, batch) == events \o <<batch>>

early_stop_strict(r, min_confidence) ==
  r.confidence # NoConfidence /\ r.confidence > min_confidence

\* "if the confidence is a float >= min_confidence, stop fetching early"
early_stop(r, min_confidence) ==
  r.confidence # NoConfidence /\ r.confidence >= min_confidence

\* what the orchestrator yields when pagination has ended
final_result(contributor, events, tentative, min_events) ==
  IF count(events) < min_events
    THEN ContributorResult(contributor, "Unknown", NoConfidence, NoFeatures)
    ELSE tentative

propagated_wrapped(kind) == [kind |-> "RabbitErrors", wrapped |-> kind]

\* an error leaving _process_single_contributor: taxonomy errors unchanged,
\* anything else wrapped in RabbitErrors("A critical error occurred: ...")
propagated(kind) ==
  IF IsRabbitError(kind)
    THEN [kind |-> kind, wrapped |-> "none"]
    ELSE [kind |-> "RabbitErrors", wrapped |-> kind]

NoError == [kind |-> "none", wrapped |-> "none"]

(* -------------------------------- state -------------------------------- *)

VARIABLES
  cfg,          \* arguments of run_rabbit: contributors, api_key, min_events, ...
  idx,          \* position of run_rabbit's loop in cfg.contributors
  pc,           \* where the run is suspended
  results,      \* the ContributorResults yielded so far
  raised,       \* the error that reached the caller of run_rabbit
  stack,        \* the running @retry wrapper calls, innermost last
  page,         \* query_events: page
  page_events,  \* query_events: the batch the generator is suspended on
  all_events,   \* orchestrator: the batches accumulated for this login
  result,       \* orchestrator: the tentative result for this login
  obs,          \* what happened for the login in progress or just left
                \* (observation only)
  unit          \* the component run on its own by the specifications of
                \* single components (RetrySpec, ...); unused in a run of
                \* run_rabbit

vars == <<cfg, idx, pc, results, raised, stack, page, page_events,
          all_events, result, obs, unit>>

\* no component is run on its own
NoUnit == [op |-> "none"]

NoBatch == [page |-> 0, size |-> 0]

Batch(p, n) == [page |-> p, size |-> n]

\* nothing has happened yet for the login
NewObs ==
  [user_type |-> "none",    \* what query_user_type returned
   event_requests |-> 0,    \* GET /users/{login}/events issued
   last_requested |-> 0,    \* page number of the latest events request
   last |-> "none",         \* how the latest HTTP request ended
   slept |-> <<>>,          \* the sleeps that followed the latest HTTP request
   waited |-> 0,            \* page of the latest rate-limit wait of query_events
   late_request |-> FALSE,  \* an events request followed a short page
   fetched |-> <<>>,        \* the batches query_events yielded, in order
   pipeline |-> <<>>,       \* count(events) of every predict_user_type call
   last_outcome |-> [kind |-> "none", p |-> 0],
                            \* what the pipeline did on its latest call
   confident_at |-> 0,      \* batches fetched when a classification first
                            \* had a numeric confidence >= min_confidence
   stopped |-> FALSE,       \* the loop was left by the early stop
   faults |-> 0,            \* responses that were a rate limit or retryable
   error |-> "none",        \* the error raised while the login was processed
   outcome |-> "none"]      \* how the login was left: yielded or raised

\* login lists without repetition (the CLI removes duplicates)
Contributors == { SubSeq(Logins, 1, n) : n \in 0..MaxLogins }

Init ==
  /\ cfg \in [contributors : Contributors, api_key : BOOLEAN,
              min_events : MinEventsSet, min_confidence : MinConfidenceSet,
              max_queries : MaxQueriesSet, no_wait : BOOLEAN]
  /\ idx = 1
  /\ pc = "idle"
  /\ results = <<>>
  /\ raised = NoError
  /\ stack = <<>>
  /\ page = 0
  /\ page_events = NoBatch
  /\ all_events = <<>>
  /\ result = ContributorResult("", "Unknown", NoConfidence, NoFeatures)
  /\ obs = NewObs
  /\ unit = NoUnit

contributor_first == cfg.contributors[1]

\* the login run_rabbit's loop is at
contributor == cfg.contributors[idx]

(* ------------------- one request of the event source ------------------- *)

query_events_step_skip(p, frames, r, no_wait) ==
  CASE r.kind = "ok" ->
         [next |-> "yield", page |-> p, stack |-> <<>>, slept |-> <<>>,
          error |-> "none"]
    [] r.kind = "RateLimitExceededError" ->
         IF must_raise(no_wait, r)
           THEN [next |-> "raise", page |-> p, stack |-> <<>>, slept |-> <<>>,
                 error |-> r.kind]
           ELSE [next |-> "wait", page |-> p + 1, stack |-> <<NewFrame>>,
                 slept |-> wait_reset(r), error |-> "none"]
    [] r.kind = "RetryableError" ->
         IF unwind(frames).raised
           THEN [next |-> "raise", page |-> p, stack |-> <<>>, slept |-> <<>>,
                 error |-> r.kind]
           ELSE [next |-> "retry", page |-> p, stack |-> unwind(frames).stack,
                 slept |-> unwind(frames).slept, error |-> "none"]
    [] OTHER ->
         [next |-> "raise", page |-> p, stack |-> <<>>, slept |-> <<>>,
          error |-> r.kind]

\* query_events from the call of _query_event_page for page p to its next
\* suspension: the page is yielded, the error is raised, or the loop goes
\* round to request again (after a retry sleep inside the wrapper, or after
\* a rate-limit wait, which starts a new wrapper call for the same page)
query_events_step(p, frames, r, no_wait) ==
  CASE r.kind = "ok" ->
         [next |-> "yield", page |-> p, stack |-> <<>>, slept |-> <<>>,
          error |-> "none"]
    [] r.kind = "RateLimitExceededError" ->
         IF must_raise(no_wait, r)
           THEN [next |-> "raise", page |-> p, stack |-> <<>>, slept |-> <<>>,
                 error |-> r.kind]
           ELSE [next |-> "wait", page |-> p, stack |-> <<NewFrame>>,
                 slept |-> wait_reset(r), error |-> "none"]
    [] r.kind = "RetryableError" ->
         IF unwind(frames).raised
           THEN [next |-> "raise", page |-> p, stack |-> <<>>, slept |-> <<>>,
                 error |-> r.kind]
           ELSE [next |-> "retry", page |-> p, stack |-> unwind(frames).stack,
                 slept |-> unwind(frames).slept, error |-> "none"]
    [] OTHER ->
         [next |-> "raise", page |-> p, stack |-> <<>>, slept |-> <<>>,
          error |-> r.kind]

query_events_resume_skip(p, batch, max_queries) ==
  IF ~_check_events_left(batch)
    THEN [more |-> FALSE, page |-> p]
    ELSE [more |-> more_pages(p + 2, max_queries), page |-> p + 2]

query_events_resume_stay(p, batch, max_queries) ==
  IF ~_check_events_left(batch)
    THEN [more |-> FALSE, page |-> p]
    ELSE [more |-> more_pages(p, max_queries), page |-> p]

\* query_events after the consumer pulls again: stop on a short page,
\* otherwise page += 1 and the loop test
query_events_resume(p, batch, max_queries) ==
  IF ~_check_events_left(batch)
    THEN [more |-> FALSE, page |-> p]
    ELSE [more |-> more_pages(p + 1, max_queries), page |-> p + 1]

\* query_user_type from its HTTP request to the next one or to its end;
\* a rate-limit wait is followed by a nested call through the wrapper
query_user_type_step(frames, r, no_wait) ==
  CASE r.kind = "ok" ->
         [next |-> "return", stack |-> <<>>, slept |-> <<>>, error |-> "none"]
    [] r.kind = "RateLimitExceededError" ->
         IF must_raise(no_wait, r)
           THEN [next |-> "raise", stack |-> <<>>, slept |-> <<>>,
                 error |-> r.kind]
           ELSE [next |-> "wait", stack |-> Append(frames, NewFrame),
                 slept |-> wait_reset(r), error |-> "none"]
    [] r.kind = "RetryableError" ->
         IF unwind(frames).raised
           THEN [next |-> "raise", stack |-> <<>>, slept |-> <<>>,
                 error |-> r.kind]
           ELSE [next |-> "retry", stack |-> unwind(frames).stack,
                 slept |-> unwind(frames).slept, error |-> "none"]
    [] OTHER ->
         [next |-> "raise", stack |-> <<>>, slept |-> <<>>, error |-> r.kind]

\* the upstream stops failing a login after MaxFaults faults
IsFault(r) == r.kind \in {"RateLimitExceededError", "RetryableError"}

WithinFaults(r) == IsFault(r) => obs.faults < MaxFaults

\* a rate limit the event source waits for
IsWait(r) ==
  r.kind = "RateLimitExceededError" /\ r.reset # NoReset /\ ~cfg.no_wait

Observe(o, step, r) ==
  [o EXCEPT !.faults = IF IsFault(r) THEN @ + 1 ELSE @,
            !.last = IF IsWait(r) THEN "wait" ELSE r.kind,
            !.slept = step.slept,
            !.error = IF step.next = "raise" THEN step.error ELSE @]

(* ------------------------ leaving a contributor ------------------------ *)

Locals ==
  /\ stack' = <<>>
  /\ page' = 0
  /\ page_events' = NoBatch
  /\ all_events' = <<>>
  /\ result' = ContributorResult("", "Unknown", NoConfidence, NoFeatures)

\* run_rabbit yields the result of _process_single_contributor
Yield(r, o) ==
  /\ results' = Append(results, r)
  /\ obs' = [o EXCEPT !.outcome = "yielded"]
  /\ idx' = idx + 1
  /\ pc' = "idle"
  /\ Locals
  /\ UNCHANGED <<cfg, raised>>

\* the error ends the result stream
Propagate(kind, o) ==
  /\ raised' = propagated(kind)
  /\ obs' = [o EXCEPT !.outcome = "raised"]
  /\ pc' = "raised"
  /\ Locals
  /\ UNCHANGED <<cfg, idx, results>>

OnError_propagate(kind, o) == Propagate(kind, o)

\* the except clauses of _process_single_contributor
OnError(kind, o) ==
  IF kind = "NotFoundError"
    THEN Yield(ContributorResult(contributor, "Invalid", NoConfidence, NoFeatures), o)
    ELSE Propagate(kind, o)

(* ------------------------------- actions ------------------------------- *)

\* the consumer pulls the next result: run_rabbit enters
\* _process_single_contributor, which calls query_user_type
Pull ==
  /\ unit' = unit
  /\ pc = "idle"
  /\ idx <= Len(cfg.contributors)
  /\ pc' = "query_user_type"
  /\ stack' = <<NewFrame>>
  /\ obs' = NewObs
  /\ UNCHANGED <<cfg, idx, results, raised, page, page_events, all_events,
                 result>>

\* the login list is exhausted: the result stream ends
Finish ==
  /\ unit' = unit
  /\ pc = "idle"
  /\ idx > Len(cfg.contributors)
  /\ pc' = "done"
  /\ UNCHANGED <<cfg, idx, results, raised, stack, page, page_events,
                 all_events, result, obs>>

\* entering `for events in query_events(contributor)`: page = 1, loop test
StartEvents(o) ==
  IF more_pages(1, cfg.max_queries)
    THEN /\ pc' = "query_events"
         /\ page' = 1
         /\ stack' = <<NewFrame>>
         /\ page_events' = NoBatch
         /\ all_events' = <<>>
         /\ result' = ContributorResult(contributor, "Unknown", NoConfidence, NoFeatures)
         /\ obs' = [o EXCEPT !.faults = 0]
         /\ UNCHANGED <<cfg, idx, results, raised>>
    ELSE Yield(final_result(contributor, <<>>,
                 ContributorResult(contributor, "Unknown", NoConfidence, NoFeatures),
                 cfg.min_events), o)

\* GET /users/{login} and what query_user_type and the orchestrator do with
\* the response
UserTypeRequest(response) ==
  /\ unit' = unit
  /\ pc = "query_user_type"
  /\ LET r == _handle_api_response(cfg.api_key, response)
         step == query_user_type_step(stack, r, cfg.no_wait)
         o == Observe(obs, step, r)
     IN /\ WithinFaults(r)
        /\ CASE step.next = "return" ->
                  IF known_type(r.body.type)
                    THEN Yield(ContributorResult(contributor, r.body.type, 1000,
                                                 NoFeatures),
                               [o EXCEPT !.user_type = r.body.type])
                    ELSE StartEvents([o EXCEPT !.user_type = r.body.type])
             [] step.next = "raise" -> OnError(step.error, o)
             [] OTHER ->
                  /\ stack' = step.stack
                  /\ obs' = o
                  /\ UNCHANGED <<cfg, idx, pc, results, raised, page,
                                 page_events, all_events, result>>

\* GET /users/{login}/events?page=page and what query_events does with the
\* response, up to its yield
EventPageRequest(response) ==
  /\ unit' = unit
  /\ pc = "query_events"
  /\ LET r == _handle_api_response(cfg.api_key, response)
         step == query_events_step(page, stack, r, cfg.no_wait)
         o == Observe([obs EXCEPT !.event_requests = @ + 1,
                                  !.last_requested = page,
                                  !.waited = IF IsWait(r) THEN page ELSE @,
                                  !.late_request =
                                     @ \/ \E i \in DOMAIN obs.fetched :
                                             obs.fetched[i].size < PerPage],
                      step, r)
     IN /\ WithinFaults(r)
        /\ CASE step.next = "yield" ->
                  /\ pc' = "batch"
                  /\ page_events' = Batch(page, r.body.size)
                  /\ stack' = step.stack
                  /\ page' = step.page
                  /\ obs' = [o EXCEPT !.fetched = Append(@, Batch(page, r.body.size))]
                  /\ UNCHANGED <<cfg, idx, results, raised, all_events,
                                 result>>
             [] step.next = "raise" -> OnError(step.error, o)
             [] OTHER ->
                  /\ stack' = step.stack
                  /\ page' = step.page
                  /\ obs' = o
                  /\ UNCHANGED <<cfg, idx, pc, results, raised, page_events,
                                 all_events, result>>

\* the orchestrator's loop body on the yielded batch, then either the early
\* stop or the next pull, which resumes query_events after its yield
ConsumeBatch(outcome) ==
  /\ unit' = unit
  /\ pc = "batch"
  /\ LET events == cumulative(all_events, page_events)
         classify == enough_events(events, cfg.min_events)
         tentative == IF classify
                        THEN predict_user_type(contributor, events, outcome)
                        ELSE result
         confident == /\ classify
                      /\ outcome.kind = "prob"
                      /\ tentative.confidence # NoConfidence
                      /\ tentative.confidence >= cfg.min_confidence
         o == IF classify
                THEN [obs EXCEPT !.pipeline = Append(@, count(events)),
                                 !.last_outcome = outcome,
                                 !.confident_at =
                                    IF @ = 0 /\ confident
                                      THEN Len(obs.fetched) ELSE @]
                ELSE obs
         resume == query_events_resume(page, page_events, cfg.max_queries)
     IN IF classify /\ outcome.kind = "raise"
          THEN OnError("Exception", [o EXCEPT !.error = "Exception"])
        ELSE IF classify /\ early_stop(tentative, cfg.min_confidence)
          THEN Yield(tentative, [o EXCEPT !.stopped = TRUE])
        ELSE IF resume.more
          THEN /\ pc' = "query_events"
               /\ page' = resume.page
               /\ stack' = <<NewFrame>>
               /\ page_events' = NoBatch
               /\ all_events' = events
               /\ result' = tentative
               /\ obs' = o
               /\ UNCHANGED <<cfg, idx, results, raised>>
          ELSE Yield(final_result(contributor, events, tentative, cfg.min_events), o)

Next ==
  \/ Pull
  \/ Finish
  \/ \E response \in UserResponses : UserTypeRequest(response)
  \/ \E response \in EventResponses : EventPageRequest(response)
  \/ \E outcome \in PipelineOutcomes : ConsumeBatch(outcome)

Spec == Init /\ [][Next]_vars

TypeOK ==
  /\ pc \in {"idle", "query_user_type", "query_events", "batch", "done", "raised"}
  /\ idx \in 1..(Len(cfg.contributors) + 1)
  /\ Len(results) <= Len(cfg.contributors)

(* ---------------- the variables of run_rabbit, at rest ----------------- *)

program == <<cfg, idx, pc, results, raised, stack, page, page_events,
             all_events, result, obs>>

\* run_rabbit is not running: a component is run on its own
Detached ==
  /\ cfg = [contributors |-> <<>>, api_key |-> FALSE, min_events |-> 5,
            min_confidence |-> 1000, max_queries |-> 3, no_wait |-> FALSE]
  /\ idx = 1
  /\ pc = "detached"
  /\ results = <<>>
  /\ raised = NoError
  /\ stack = <<>>
  /\ page = 0
  /\ page_events = NoBatch
  /\ all_events = <<>>
  /\ result = ContributorResult("", "Unknown", NoConfidence, NoFeatures)
  /\ obs = NewObs

(* ------------------- the retry decorator on its own -------------------- *)

\* what one invocation of the wrapped function does: it returns, or raises
\* an error of the taxonomy or another exception
Outcomes ==
  {"ok", "RetryableError", "NotFoundError", "APIRequestError",
   "RateLimitExceededError", "Exception"}

\* the behaviour of the wrapped function, invocation by invocation
Scripts == [1..(MaxAttempts + 1) -> Outcomes]

\* delay (half-seconds) and backoff (a fraction) given to the decorator: the
\* defaults (10, 2.0), the ones of the event source (10, 2.5), a short delay
RetryParams ==
  { [delay |-> d, backoff |-> b] :
      d \in {delay, 2},
      b \in {[num |-> 2, den |-> 1], [num |-> BackoffNum, den |-> BackoffDen]} }

\* the exception object raised by the i-th invocation
Raised(kind, i) == [kind |-> kind, by |-> i]

\* last_error = None
None == [kind |-> "None", by |-> 0]

\* `raise None`
TypeError == [kind |-> "TypeError", by |-> 0]

wrapper_in_range_more(attempt, m) == attempt <= m

\* `for attempt in range(max_attempts)`
wrapper_in_range(attempt, m) == attempt < m

wrapper_caught_all(kind) == kind # "ok"

\* `except RetryableError as e`
wrapper_caught(kind) == kind = "RetryableError"

\* `if attempt < max_attempts - 1`
wrapper_sleeps(attempt, m) == attempt < m - 1

wrapper_backoff_none(d, b) == d

\* `current_delay *= backoff`, on fractions
wrapper_backoff(d, b) == [num |-> d.num * b.num, den |-> d.den * b.den]

wrapper_last_error_kept(last_error, e) == last_error

\* `last_error = e`
wrapper_last_error(last_error, e) == e

\* `raise last_error`
wrapper_raise(last_error) == IF last_error = None THEN TypeError ELSE last_error

\* a call of wrapper(*args): current_delay = delay, last_error = None
NewCall(m, params, script) ==
  [op |-> "retry", max_attempts |-> m, delay |-> params.delay,
   backoff |-> params.backoff, script |-> script,
   attempt |-> 0, current_delay |-> [num |-> params.delay, den |-> 1],
   last_error |-> None,
   calls |-> 0,           \* invocations of func so far
   slept |-> <<>>,        \* the sleeps so far, as fractions
   slept_after |-> <<>>,  \* the number of invocations before each sleep
   status |-> "running", error |-> None]

RetryInit ==
  /\ Detached
  /\ unit \in { NewCall(m, params, script) :
                  m \in 0..MaxAttempts, params \in RetryParams,
                  script \in Scripts }

\* wrapper: one invocation of func and what follows it, up to the next
\* invocation or to the end of the call
wrapper ==
  /\ unit.op = "retry"
  /\ unit.status = "running"
  /\ LET n == unit.calls + 1
         kind == unit.script[n]
         e == Raised(kind, n)
         m == unit.max_attempts
         called == [unit EXCEPT !.calls = n]
     IN unit' =
          IF kind = "ok"
            THEN [called EXCEPT !.status = "returned"]
          ELSE IF m <= 0 \/ ~wrapper_caught(kind)
            THEN [called EXCEPT !.status = "raised", !.error = e]
          ELSE LET handled ==
                     IF wrapper_sleeps(unit.attempt, m)
                       THEN [called EXCEPT
                               !.slept = Append(@, unit.current_delay),
                               !.slept_after = Append(@, n),
                               !.current_delay =
                                  wrapper_backoff(@, unit.backoff)]
                       ELSE [called EXCEPT
                               !.last_error = wrapper_last_error(@, e)]
               IN IF wrapper_in_range(unit.attempt + 1, m)
                    THEN [handled EXCEPT !.attempt = @ + 1]
                    ELSE [handled EXCEPT
                            !.attempt = @ + 1,
                            !.status = "raised",
                            !.error = wrapper_raise(handled.last_error)]
  /\ UNCHANGED program

RetryNext == wrapper

RetrySpec == RetryInit /\ [][RetryNext]_vars

(* ------------------ the response handler on its own -------------------- *)

\* HTTP statuses the upstream can answer with
Statuses ==
  {200, 201, 204, 301, 304, 400, 401, 403, 404, 408, 409, 418, 422, 429,
   500, 502, 503, 504}

\* the responses given to the handler: every status with the rate-limit
\* headers absent or present, as strings (what the HTTP client delivers) or
\* as the int 0
HandlerResponses ==
  { Response(st, ra, rem, 1, rr, body) :
      st \in Statuses,
      ra \in {NoHeader, StrHeader(0), StrHeader(1)},
      rem \in {NoHeader, StrHeader(0), IntHeader(0), StrHeader(5)},
      rr \in BOOLEAN,
      body \in {UserBody("User"), EventsBody(50)} }

\* what a call of _handle_api_response(contributor, response) gives: the
\* outcome, with what the raised error carries (NotFoundError(contributor),
\* APIRequestError(response, ...))
handled(login, key, response) ==
  LET r == _handle_api_response(key, response)
  IN [kind |-> r.kind, body |-> r.body, reset |-> r.reset,
      resource |-> IF r.kind = "NotFoundError" THEN login ELSE "",
      status_code |-> IF r.kind = "APIRequestError" THEN response.status ELSE 0]

HandlerInit ==
  /\ Detached
  /\ unit \in { [op |-> "handle", contributor |-> c, key |-> k,
                 response |-> r, done |-> FALSE,
                 result |-> handled("", FALSE, Response(200, NoHeader, NoHeader,
                                                        0, FALSE, NoBody))] :
                  c \in {"alice", "bob"}, k \in BOOLEAN,
                  r \in HandlerResponses }

\* one call of _handle_api_response
handle_api_response ==
  /\ unit.op = "handle"
  /\ ~unit.done
  /\ unit' = [unit EXCEPT
                !.done = TRUE,
                !.result = handled(unit.contributor, unit.key, unit.response)]
  /\ UNCHANGED program

HandlerNext == handle_api_response

HandlerSpec == HandlerInit /\ [][HandlerNext]_vars

(* ------------------------ the predictor on its own --------------------- *)

\* every probability the model can return, in 1/PScale
AllProbabilities == 0..PScale

PredictInit ==
  /\ Detached
  /\ unit \in { [op |-> "predict", p |-> p, done |-> FALSE,
                 user_type |-> "none", confidence |-> NoConfidence] :
                  p \in AllProbabilities }

\* one call of ONNXPredictor.predict
run_predict ==
  /\ unit.op = "predict"
  /\ ~unit.done
  /\ unit' = [unit EXCEPT !.done = TRUE,
                          !.user_type = predict(unit.p).user_type,
                          !.confidence = predict(unit.p).confidence]
  /\ UNCHANGED program

PredictNext == run_predict

PredictSpec == PredictInit /\ [][PredictNext]_vars

(* ---------------------- the feature extractor -------------------------- *)

\* the aggregated features computed from consecutive activities and their
\* emitted statistics, as in FEATURE_CONFIG
FEATURE_CONFIG ==
  [NA   |-> {},
   NT   |-> {},
   NOR  |-> {},
   ORR  |-> {},
   DCA  |-> {"mean", "median", "std", "gini"},
   NAR  |-> {"mean", "median", "gini", "IQR"},
   NTR  |-> {"mean", "median", "std", "gini"},
   NCAR |-> {"mean", "std", "IQR"},
   DCAR |-> {"mean", "median", "std", "IQR"},
   DAAR |-> {"mean", "median", "std", "gini", "IQR"},
   DCAT |-> {"mean", "median", "std", "gini", "IQR"},
   NAT  |-> {"mean", "median", "std", "gini", "IQR"}]

\* `for stat in (stats if stats else [""])`
Columns(f) == IF FEATURE_CONFIG[f] = {} THEN {""} ELSE FEATURE_CONFIG[f]

\* the column names, as pairs (feature, stat)
FEATURE_NAMES ==
  UNION { { <<f, st>> : st \in Columns(f) } : f \in DOMAIN FEATURE_CONFIG }

INTEGER_FEATURES == {"NA", "NT", "NOR"}

StatNames == {"mean", "median", "std", "gini", "IQR"}

\* a float: NaN or a fraction
NaN == [nan |-> TRUE, num |-> 0, den |-> 1]

Frac(n, d) == [nan |-> FALSE, num |-> n, den |-> d]

Val(n) == Frac(n, 1)

\* a start_date that to_datetime(errors="coerce") could not parse
NaT == -1

\* an activity of the mapper, as a row of activity_df; dates are in hours
Activity(login, repo, kind, date) ==
  [contributor |-> login, repository |-> repo, activity |-> kind,
   date |-> date]

Activities ==
  { Activity(l, r, k, d) :
      l \in {"alice", "bob"}, r \in {1, 2}, k \in {"Push", "Issue"},
      d \in {0, 3} }

RECURSIVE ActivityLists(_)
ActivityLists(n) ==
  IF n = 0 THEN {<<>>}
  ELSE ActivityLists(n - 1)
       \cup { Append(l, a) : l \in { x \in ActivityLists(n - 1) : Len(x) = n - 1 },
                             a \in Activities }

\* the activities of one contributor, some with a start_date that is not a
\* date
Rows ==
  { Activity("alice", r, k, d) :
      r \in {1, 2}, k \in {"Push", "Issue"}, d \in {0, 3, NaT} }

RECURSIVE RowLists(_)
RowLists(n) ==
  IF n = 0 THEN {<<>>}
  ELSE RowLists(n - 1)
       \cup { Append(l, a) : l \in { x \in RowLists(n - 1) : Len(x) = n - 1 },
                             a \in Rows }

\* the owner column: the repositories of the model are octo/1 and octo/2
owner(row) == "octo"

\* the order of sort_values: NaT comes last
date_le(a, b) == b = NaT \/ (a # NaT /\ a <= b)

\* sort_values(COL_DATE): rows in date order, rows of one date in the order
\* they came
RECURSIVE insert(_, _)
insert(sorted, a) ==
  IF sorted = <<>> THEN <<a>>
  ELSE IF date_le(sorted[Len(sorted)].date, a.date) THEN Append(sorted, a)
  ELSE Append(insert(SubSeq(sorted, 1, Len(sorted) - 1), a), sorted[Len(sorted)])

RECURSIVE sort_values(_)
sort_values(rows) ==
  IF rows = <<>> THEN <<>>
  ELSE insert(sort_values(SubSeq(rows, 1, Len(rows) - 1)), rows[Len(rows)])

_prepare_dataframe(activity_sequences) == sort_values(activity_sequences)

unique(df) == { df[i].contributor : i \in DOMAIN df }

_validate_date_never(df) == FALSE

\* _validate_date: TRUE when it raises ValueError
_validate_date(df) == df # <<>> /\ Cardinality(unique(df)) # 1

(* series of floats *)

IsNumber(v) == ~v.nan

dropna(series) == SelectSeq(series, IsNumber)

RECURSIVE Sum(_)
Sum(series) == IF series = <<>> THEN 0 ELSE series[1].num + Sum(Tail(series))

RECURSIVE SumSq(_)
SumSq(series) ==
  IF series = <<>> THEN 0 ELSE series[1].num * series[1].num + SumSq(Tail(series))

\* np.sort of whole numbers
RECURSIVE place(_, _)
place(sorted, v) ==
  IF sorted = <<>> THEN <<v>>
  ELSE IF sorted[Len(sorted)].num <= v.num THEN Append(sorted, v)
  ELSE Append(place(SubSeq(sorted, 1, Len(sorted) - 1), v), sorted[Len(sorted)])

RECURSIVE sort(_)
sort(series) ==
  IF series = <<>> THEN <<>>
  ELSE place(sort(SubSeq(series, 1, Len(series) - 1)), series[Len(series)])

\* a - b on floats
minus(a, b) ==
  IF a.nan \/ b.nan THEN NaN
  ELSE Frac(a.num * b.den - b.num * a.den, a.den * b.den)

\* Series.mean(): NaN values are skipped; NaN when nothing is left
mean(series) ==
  LET v == dropna(series)
  IN IF v = <<>> THEN NaN ELSE Frac(Sum(v), Len(v))

\* Series.quantile(j / 4): linear interpolation over the sorted values that
\* are not NaN; NaN when there is none
quantile(series, j) ==
  LET v == sort(dropna(series))
      n == Len(v)
      lo == ((n - 1) * j) \div 4 + 1
      r == ((n - 1) * j) % 4
      hi == IF r = 0 THEN lo ELSE lo + 1
  IN IF n = 0 THEN NaN
     ELSE Frac(4 * v[lo].num + r * (v[hi].num - v[lo].num), 4)

\* Series.std(): the sample standard deviation of the values that are not
\* NaN, NaN when there are fewer than two; kept as its square
std(series) ==
  LET v == dropna(series)
      n == Len(v)
  IN IF n < 2 THEN NaN
     ELSE Frac(n * SumSq(v) - Sum(v) * Sum(v), n * (n - 1))

RECURSIVE weighted(_, _, _)
weighted(v, i, n) ==
  IF i > n THEN 0 ELSE (2 * i - n - 1) * v[i].num + weighted(v, i + 1, n)

IsNonZero_any(v) == TRUE

\* array[array != 0]
IsNonZero(v) == v.num # 0

\* _compute_gini
_compute_gini(array) ==
  LET v == sort(SelectSeq(array, IsNonZero))
      n == Len(v)
  IN IF n = 0 THEN Val(0)
     ELSE IF Sum(v) = 0 THEN NaN
     ELSE Frac(weighted(v, 1, n), n * Sum(v))

\* _compute_stats
_compute_stats(series) ==
  IF series = <<>>
    THEN [mean |-> Val(0), median |-> Val(0), std |-> Val(0),
          gini |-> Val(0), IQR |-> Val(0)]
    ELSE [mean |-> mean(series),
          median |-> quantile(series, 2),
          std |-> IF std(series).nan THEN Val(0) ELSE std(series),
          gini |-> _compute_gini(dropna(series)),
          IQR |-> minus(quantile(series, 3), quantile(series, 1))]

\* (a - b) / time_unit on dates: NaN when one of them is NaT
hours(a, b) == IF a = NaT \/ b = NaT THEN NaN ELSE Val(a - b)

\* the value of the grouping column in a row
key(row, group_col) ==
  CASE group_col = "activity" -> row.activity
    [] group_col = "owner" -> owner(row)
    [] OTHER -> row.repository

\* Series.nunique()
nunique(df, col) == Cardinality({ key(df[i], col) : i \in DOMAIN df })

\* _compute_counting_features
_compute_counting_features(df) ==
  LET n_owners == nunique(df, "owner")
      n_repos == nunique(df, "repository")
  IN [NA |-> Val(Len(df)),
      NT |-> Val(nunique(df, "activity")),
      NOR |-> Val(n_owners),
      ORR |-> IF n_repos > 0 THEN Frac(n_owners, n_repos) ELSE Val(0)]

\* groupby(group_col, sort=False): the values of the column in the order of
\* their first row
RECURSIVE groups(_, _)
groups(df, group_col) ==
  IF df = <<>> THEN <<>>
  ELSE LET before == groups(SubSeq(df, 1, Len(df) - 1), group_col)
           k == key(df[Len(df)], group_col)
       IN IF \E i \in DOMAIN before : before[i] = k THEN before
          ELSE Append(before, k)

\* the column that is counted in the groups of group_col
counted(group_col) ==
  IF group_col = "repository" THEN "activity" ELSE "repository"

\* groupby(group_col)[...].nunique()
groupby_nunique(df, group_col) ==
  LET g == groups(df, group_col)
  IN [i \in DOMAIN g |->
        Val(Cardinality({ key(df[j], counted(group_col)) :
                            j \in { j \in DOMAIN df :
                                      key(df[j], group_col) = g[i] } }))]

groupby_count_distinct(df, group_col) == groupby_nunique(df, group_col)

\* groupby(group_col)[...].count()
groupby_count(df, group_col) ==
  LET g == groups(df, group_col)
  IN [i \in DOMAIN g |->
        Val(Cardinality({ j \in DOMAIN df : key(df[j], group_col) = g[i] }))]

\* groupby(is_new_group.cumsum()).agg(count, first date, last date): the
\* runs of consecutive rows with the same value in group_col; "first" and
\* "last" skip NaT
RECURSIVE grouped(_, _)
grouped(df, group_col) ==
  IF df = <<>> THEN <<>>
  ELSE LET before == grouped(SubSeq(df, 1, Len(df) - 1), group_col)
           row == df[Len(df)]
       IN IF Len(df) > 1 /\ key(df[Len(df) - 1], group_col) = key(row, group_col)
            THEN [before EXCEPT ![Len(before)].activities_count = @ + 1,
                                ![Len(before)].start =
                                   IF @ = NaT THEN row.date ELSE @,
                                ![Len(before)].end =
                                   IF row.date = NaT THEN @ ELSE row.date]
            ELSE Append(before, [activities_count |-> 1, start |-> row.date,
                                 end |-> row.date])

\* _get_switching_metrics: one row per run; time_to_switch of the last run
\* is NaT - end, that is NaN
_get_switching_metrics(df, group_col) ==
  LET aggs == grouped(df, group_col)
  IN [i \in 1..Len(aggs) |->
        [activities_count |-> Val(aggs[i].activities_count),
         time_spent |-> hours(aggs[i].end, aggs[i].start),
         time_to_switch |-> IF i < Len(aggs)
                              THEN hours(aggs[i + 1].start, aggs[i].end)
                              ELSE NaN]]

activities_count(metrics) == [i \in DOMAIN metrics |-> metrics[i].activities_count]

time_spent(metrics) == [i \in DOMAIN metrics |-> metrics[i].time_spent]

time_to_switch(metrics) == [i \in DOMAIN metrics |-> metrics[i].time_to_switch]

\* _compute_dca: (times.shift(-1) - times).dropna()
_compute_dca(df) ==
  _compute_stats(dropna([i \in 1..Len(df) |->
                           IF i < Len(df) THEN hours(df[i + 1].date, df[i].date)
                                          ELSE NaN]))

_compute_nar(df) == _compute_stats(groupby_count(df, "repository"))

_compute_ntr(df) == _compute_stats(groupby_nunique(df, "repository"))

_compute_nat(df) == _compute_stats(groupby_count(df, "activity"))

_compute_dcat(df) ==
  _compute_stats(time_to_switch(_get_switching_metrics(df, "activity")))

\* _compute_repo_switching_metrics
_compute_ncar(df) ==
  _compute_stats(activities_count(_get_switching_metrics(df, "repository")))

_compute_dcar(df) ==
  _compute_stats(time_spent(_get_switching_metrics(df, "repository")))

_compute_daar(df) ==
  _compute_stats(time_to_switch(_get_switching_metrics(df, "repository")))

\* _compute_aggregated_features
_compute_aggregated_features(df) ==
  IF df = <<>>
    THEN [f \in { g \in DOMAIN FEATURE_CONFIG : FEATURE_CONFIG[g] # {} } |->
            [st \in FEATURE_CONFIG[f] |-> NaN]]
    ELSE [DCA |-> _compute_dca(df), NAR |-> _compute_nar(df),
          NTR |-> _compute_ntr(df), NAT |-> _compute_nat(df),
          DCAT |-> _compute_dcat(df), NCAR |-> _compute_ncar(df),
          DCAR |-> _compute_dcar(df), DAAR |-> _compute_daar(df)]

\* round(3) of a float, in thousandths (half to even); the std column, kept
\* as a square, is left as it is
round3(f, stat, v) ==
  IF v.nan THEN NaN
  ELSE IF stat = "std" THEN v
  ELSE LET q == (v.num * 1000) \div v.den
           r == (v.num * 1000) % v.den
       IN Frac(IF 2 * r < v.den THEN q
               ELSE IF 2 * r > v.den THEN q + 1
               ELSE IF q % 2 = 0 THEN q ELSE q + 1, 1000)

\* astype("int") of a column
astype_int(v) == Val(v.num \div v.den)

\* compute_features: the columns of FEATURE_NAMES, <feature>_<stat> or
\* <feature>, of the row
compute_features_row(df) ==
  LET all_features ==
        _compute_counting_features(df) @@ _compute_aggregated_features(df)
  IN [f \in DOMAIN FEATURE_CONFIG |->
        [st \in Columns(f) |->
           IF st # "" THEN round3(f, st, all_features[f][st])
           ELSE IF f \in INTEGER_FEATURES
             THEN astype_int(round3(f, st, all_features[f]))
           ELSE round3(f, st, all_features[f])]]

\* the series the aggregates are computed from: the runs of consecutive
\* rows by repository and by kind, and the counts by repository and by kind
series_of(df) ==
  [runs_repository |-> _get_switching_metrics(df, "repository"),
   runs_activity |-> _get_switching_metrics(df, "activity"),
   NAR |-> groupby_count(df, "repository"),
   NAT |-> groupby_count(df, "activity")]

FeatureInit ==
  /\ Detached
  /\ unit \in { [op |-> "features", username |-> "alice",
                 activity_sequences |-> l, stage |-> "new",
                 activity_df |-> <<>>, computed |-> FALSE, row |-> <<>>,
                 series |-> <<>>] :
                  l \in ActivityLists(MaxActivities) }

\* ActivityFeatureExtractor(username, activity_sequences)
__init__ ==
  /\ unit.op = "features"
  /\ unit.stage = "new"
  /\ LET df == _prepare_dataframe(unit.activity_sequences)
     IN unit' = [unit EXCEPT
                   !.activity_df = df,
                   !.stage = IF _validate_date(df) THEN "ValueError"
                                                   ELSE "constructed"]
  /\ UNCHANGED program

\* extractor.compute_features(); a DataFrame made of no activity has no
\* column, and the look-up of the owner column raises KeyError
compute_features ==
  /\ unit.op = "features"
  /\ unit.stage = "constructed"
  /\ unit' = IF unit.activity_df = <<>>
               THEN [unit EXCEPT !.stage = "KeyError"]
               ELSE [unit EXCEPT !.stage = "returned", !.computed = TRUE,
                                 !.row = compute_features_row(unit.activity_df),
                                 !.series = series_of(unit.activity_df)]
  /\ UNCHANGED program

FeatureNext == __init__ \/ compute_features

FeatureSpec == FeatureInit /\ [][FeatureNext]_vars

\* the feature extractor given the activities of one contributor, with and
\* without dates that cannot be parsed
CoercedInit ==
  /\ Detached
  /\ unit \in { [op |-> "features", username |-> "alice",
                 activity_sequences |-> l, stage |-> "new",
                 activity_df |-> <<>>, computed |-> FALSE, row |-> <<>>,
                 series |-> <<>>] :
                  l \in RowLists(MaxActivities) }

CoercedSpec == CoercedInit /\ [][FeatureNext]_vars

(* ----------------------- the Gini helper on its own -------------------- *)

\* values of the series: zeros, repeated values and distinct ones
GiniValues == {0, 1, 2, 5}

\* positive factors a series is scaled by
Scales == {1, 2, 3}

RECURSIVE SeriesOf(_)
SeriesOf(n) ==
  IF n = 0 THEN {<<>>}
  ELSE SeriesOf(n - 1) \cup
       { Append(s, Val(v)) : s \in SeriesOf(n - 1), v \in GiniValues }

\* c * x
scaled(c, x) == [i \in DOMAIN x |-> Val(c * x[i].num)]

GiniInit ==
  /\ Detached
  /\ unit \in { [op |-> "gini", x |-> x, c |-> c, done |-> FALSE,
                 gini |-> NaN, gini_scaled |-> NaN] :
                  x \in SeriesOf(MaxSeries), c \in Scales }

\* _compute_gini(x) and _compute_gini(c * x)
compute_gini ==
  /\ unit.op = "gini"
  /\ ~unit.done
  /\ unit' = [unit EXCEPT !.done = TRUE,
                          !.gini = _compute_gini(unit.x),
                          !.gini_scaled = _compute_gini(scaled(unit.c, unit.x))]
  /\ UNCHANGED program

GiniNext == compute_gini

GiniSpec == GiniInit /\ [][GiniNext]_vars

(* ---------------- the event source's operations on their own ----------- *)

\* One call of query_user_type, or one iteration of query_events, against an
\* upstream that answers every request as it likes, without end.

Over == {"returned", "exhausted", "raised", "closed"}

SourceInit ==
  /\ Detached
  /\ unit \in { [op |-> "source", call |-> c, no_wait |-> nw, key |-> k,
                 max_queries |-> mq, page |-> IF c = "query_events" THEN 1 ELSE 0,
                 stack |-> <<NewFrame>>, status |-> "running",
                 batch |-> NoBatch, last |-> "none", error |-> "none",
                 waits |-> 0, retryable |-> 0] :
                  c \in {"query_user_type", "query_events"},
                  nw \in BOOLEAN, k \in BOOLEAN, mq \in MaxQueriesSet }

\* what the call has seen: the rate-limit waits and the answers with a
\* retryable outcome are counted
Seen(step, r) ==
  [unit EXCEPT !.last = step.next,
               !.waits = IF step.next = "wait" /\ @ < MaxCounted
                           THEN @ + 1 ELSE @,
               !.retryable = IF r.kind = "RetryableError" /\ @ < MaxCounted
                               THEN @ + 1 ELSE @]

Raise(u, kind) ==
  [u EXCEPT !.status = "raised", !.error = kind, !.stack = <<>>]

\* GET /users/{login} in query_user_type; the nested call after a rate-limit
\* wait fails with RecursionError when the interpreter's limit is reached
user_type_request(response) ==
  /\ unit.op = "source"
  /\ unit.call = "query_user_type"
  /\ unit.status = "running"
  /\ LET r == _handle_api_response(unit.key, response)
         step == query_user_type_step(unit.stack, r, unit.no_wait)
         u == Seen(step, r)
     IN unit' =
          CASE step.next = "return" ->
                 [u EXCEPT !.status = "returned", !.stack = <<>>]
            [] step.next = "raise" -> Raise(u, step.error)
            [] step.next = "wait" /\ Len(step.stack) > RecursionLimit ->
                 Raise(u, "RecursionError")
            [] OTHER -> [u EXCEPT !.stack = step.stack]
  /\ UNCHANGED program

\* GET /users/{login}/events?page=page in query_events, up to the yield
event_page_request(response) ==
  /\ unit.op = "source"
  /\ unit.call = "query_events"
  /\ unit.status = "running"
  /\ LET r == _handle_api_response(unit.key, response)
         step == query_events_step(unit.page, unit.stack, r, unit.no_wait)
         u == Seen(step, r)
     IN unit' =
          CASE step.next = "yield" ->
                 [u EXCEPT !.status = "yielded", !.stack = step.stack,
                           !.batch = Batch(unit.page, r.body.size)]
            [] step.next = "raise" -> Raise(u, step.error)
            [] OTHER -> [u EXCEPT !.stack = step.stack, !.page = step.page]
  /\ UNCHANGED program

\* the consumer asks for the next batch: query_events goes on after its yield
next_batch ==
  /\ unit.op = "source"
  /\ unit.status = "yielded"
  /\ LET resume == query_events_resume(unit.page, unit.batch, unit.max_queries)
     IN unit' = IF resume.more
                  THEN [unit EXCEPT !.status = "running", !.page = resume.page,
                                    !.stack = <<NewFrame>>, !.batch = NoBatch]
                  ELSE [unit EXCEPT !.status = "exhausted", !.batch = NoBatch]
  /\ UNCHANGED program

\* the consumer stops early and drops the generator
close ==
  /\ unit.op = "source"
  /\ unit.status = "yielded"
  /\ unit' = [unit EXCEPT !.status = "closed", !.batch = NoBatch]
  /\ UNCHANGED program

SourceNext ==
  \/ \E response \in UserResponses : user_type_request(response)
  \/ \E response \in EventResponses : event_page_request(response)
  \/ next_batch
  \/ close

\* the interpreter keeps running the call: every request is answered (or
\* times out) and every sleep ends
SourceSpec == SourceInit /\ [][SourceNext]_vars /\ WF_vars(SourceNext)

(* --------------------- predict_user_type on its own --------------------- *)

no_activities_never(activities) == FALSE

\* `if len(activities) == 0`
no_activities(activities) == Len(activities) = 0

\* a call predict_user_type(username, events, predictor): the mapper will
\* give `activities` for the events, the model P(bot) = p for the row
PipelineInit ==
  /\ Detached
  /\ unit \in { [op |-> "pipeline", username |-> "alice",
                 events |-> <<Batch(1, 50)>>, activities |-> l, p |-> p,
                 at |-> "called",
                 calls |-> <<>>,   \* the components invoked so far
                 result |-> ContributorResult("", "Unknown", NoConfidence,
                                              NoFeatures)] :
                  l \in ActivityLists(MaxMapped), p \in Probabilities }

\* activities = compute_activity_sequences(events), and the return when
\* there is none
map_events ==
  /\ unit.op = "pipeline"
  /\ unit.at = "called"
  /\ LET mapped == [unit EXCEPT !.calls = Append(@, "compute_activity_sequences")]
     IN unit' =
          IF no_activities(unit.activities)
            THEN [mapped EXCEPT
                    !.at = "returned",
                    !.result = predict_user_type(unit.username, unit.events,
                                                 [kind |-> "empty", p |-> 0])]
            ELSE [mapped EXCEPT !.at = "mapped"]
  /\ UNCHANGED program

\* ActivityFeatureExtractor(username, activities).compute_features()
extract_features ==
  /\ unit.op = "pipeline"
  /\ unit.at = "mapped"
  /\ LET df == _prepare_dataframe(unit.activities)
     IN unit' =
          IF _validate_date(df)
            THEN [unit EXCEPT !.at = "ValueError",
                              !.calls = Append(@, "ActivityFeatureExtractor")]
            ELSE [unit EXCEPT !.at = "extracted",
                              !.calls = @ \o <<"ActivityFeatureExtractor",
                                               "compute_features">>]
  /\ UNCHANGED program

\* predictor.predict(features_df) and the return of the result
classify ==
  /\ unit.op = "pipeline"
  /\ unit.at = "extracted"
  /\ unit' = [unit EXCEPT
                !.at = "returned",
                !.calls = Append(@, "predict"),
                !.result = predict_user_type(unit.username, unit.events,
                                             [kind |-> "prob", p |-> unit.p])]
  /\ UNCHANGED program

PipelineNext == map_events \/ extract_features \/ classify

PipelineSpec == PipelineInit /\ [][PipelineNext]_vars

(* ------------------------------- claims -------------------------------- *)

\* the login whose processing was left last, and the result yielded for it
LastLogin == cfg.contributors[Len(results)]

LastResult == results[Len(results)]

\* the run is between two logins (or over) and the last one gave a result
Left == pc \in {"idle", "done"} /\ obs.outcome = "yielded"

C8_AtMostMaxQueriesRequests ==
  /\ obs.event_requests <= cfg.max_queries
  /\ ~obs.late_request

\* C8, amended: one iteration of query_events gets at most max_queries pages
\* (requests answered 200) and requests no page number above max_queries; a
\* request that ends in a retryable error or a rate-limit wait is made again
\* for the same page; no request follows a page with fewer than 100 events.
C8_AtMostMaxQueriesPages ==
  /\ Len(obs.fetched) <= cfg.max_queries
  /\ obs.last_requested <= cfg.max_queries
  /\ ~obs.late_request
  /\ \A i \in 1..(Len(obs.fetched) - 1) : obs.fetched[i].size = PerPage
  /\ (pc = "query_events" /\ Len(obs.fetched) > 0) =>
       obs.fetched[Len(obs.fetched)].size = PerPage

\* a short second page ended the pagination below the page cap, after more
\* HTTP requests than max_queries
C8_Witness ==
  /\ Left
  /\ cfg.max_queries = 3
  /\ Len(obs.fetched) = 2
  /\ obs.fetched[2].size < PerPage
  /\ obs.event_requests > cfg.max_queries

\* C9: query_events requests page 1 first and moves from page n to page n+1
\* only after the batch of page n was yielded and the consumer pulled again
\* (a page may be requested again after a retryable error or a rate limit);
\* while the generator is suspended on a batch, and after the consumer has
\* stopped pulling, no request beyond that batch has been made.
C9_PagesInOrder ==
  /\ \A i \in DOMAIN obs.fetched : obs.fetched[i].page = i
  /\ pc = "query_events" =>
       /\ page = Len(obs.fetched) + 1
       /\ obs.last_requested \in {0, page - 1, page}
       /\ obs.event_requests = 0 => page = 1
  /\ pc = "batch" =>
       /\ page_events.page = Len(obs.fetched)
       /\ obs.last_requested = page_events.page
  /\ pc \notin {"query_events", "batch"} =>
       obs.last_requested \in {Len(obs.fetched), Len(obs.fetched) + 1}
  /\ obs.stopped => obs.last_requested = Len(obs.fetched)

\* the third page is yielded after exactly three requests
C9_Witness ==
  /\ pc = "batch"
  /\ page_events.page = 3
  /\ obs.event_requests = 3

\* C10: after a rate limit with a known reset and no_wait false, query_events
\* requests the same page again with a new retry budget: no batch is yielded
\* for the failed request and the batches yielded are pages 1, 2, ... each
\* once, as without the rate limit.
C10_RateLimitResumes ==
  /\ (pc = "query_events" /\ obs.last = "wait") =>
       /\ page = obs.last_requested
       /\ obs.waited = page
       /\ Len(obs.fetched) = page - 1
       /\ stack = <<NewFrame>>
  /\ \A i \in DOMAIN obs.fetched : obs.fetched[i].page = i
  /\ obs.waited > 0 => Len(obs.fetched) >= obs.waited - 1

\* page 2 was yielded after a rate-limit wait on page 2
C10_Witness ==
  /\ pc = "batch"
  /\ page_events.page = 2
  /\ obs.waited = 2
  /\ obs.event_requests = 3

\* C11: a RateLimitExceededError of query_user_type or query_events reaches
\* the caller, with no sleep and no further request, when no_wait is set or
\* the reset time is unknown; otherwise the operation sleeps until the reset
\* (here one second ahead) and makes the same request again.
C11_RateLimitWaitOrRaise ==
  /\ obs.last = "RateLimitExceededError" =>
       /\ pc = "raised"
       /\ raised = [kind |-> "RateLimitExceededError", wrapped |-> "none"]
       /\ obs.error = "RateLimitExceededError"
       /\ obs.slept = <<>>
       /\ ~ENABLED Next
  /\ obs.last = "wait" =>
       /\ ~cfg.no_wait
       /\ pc \in {"query_user_type", "query_events"}
       /\ pc = "query_user_type" => obs.event_requests = 0
       /\ pc = "query_events" => page = obs.last_requested
       /\ obs.slept = <<2>>
       /\ obs.error = "none"
       /\ raised = NoError

\* query_events waited for a known reset on page 1, then got a rate limit
\* with an unknown reset, which reached the caller although no_wait is unset
C11_Witness ==
  /\ pc = "raised"
  /\ obs.last = "RateLimitExceededError"
  /\ ~cfg.no_wait
  /\ obs.waited = 1
  /\ raised.kind = "RateLimitExceededError"

\* index of the first invocation that does not raise RetryableError; beyond
\* the script (hence beyond every max_attempts) when there is none
FirstOther(script) ==
  IF \E i \in DOMAIN script : script[i] # "RetryableError"
    THEN CHOOSE i \in DOMAIN script :
           /\ script[i] # "RetryableError"
           /\ \A j \in 1..(i - 1) : script[j] = "RetryableError"
    ELSE Len(script) + 1

Min(a, b) == IF a < b THEN a ELSE b

RECURSIVE Pow(_, _)
Pow(b, k) == IF k = 0 THEN 1 ELSE b * Pow(b, k - 1)

\* C12: with max_attempts >= 1, one call of the retry wrapper never invokes
\* the operation more than max_attempts times, and when the call is over it
\* has invoked it exactly min(k, max_attempts) times, k the index of the
\* first invocation that does not raise RetryableError.
C12_InvocationCount ==
  (unit.op = "retry" /\ unit.max_attempts >= 1) =>
    /\ unit.calls <= unit.max_attempts
    /\ unit.calls <= FirstOther(unit.script)
    /\ unit.status # "running" =>
         unit.calls = Min(FirstOther(unit.script), unit.max_attempts)

\* the second of three allowed invocations returned
C12_Witness ==
  /\ unit.op = "retry"
  /\ unit.max_attempts = 3
  /\ unit.status = "returned"
  /\ unit.calls = 2

\* C13: a call of the retry wrapper that has made n invocations has slept
\* n-1 times when it is over (n times while the next invocation is still to
\* come), the k-th sleep (from 0) follows the (k+1)-th invocation and lasts
\* delay * backoff^k.
C13_Sleeps ==
  (unit.op = "retry" /\ unit.max_attempts >= 1) =>
    /\ unit.status = "running" => Len(unit.slept) = unit.calls
    /\ (unit.status # "running" /\ unit.calls > 0) =>
         Len(unit.slept) = unit.calls - 1
    /\ \A k \in 0..(Len(unit.slept) - 1) :
         /\ unit.slept_after[k + 1] = k + 1
         /\ unit.slept[k + 1].num * Pow(unit.backoff.den, k) =
              unit.delay * Pow(unit.backoff.num, k) * unit.slept[k + 1].den

\* three failed invocations with delay 10 s and backoff 2.5: sleeps of 10 s
\* and 25 s (20 and 100/2 half-seconds), none after the third
C13_Witness ==
  /\ unit.op = "retry"
  /\ unit.status = "raised"
  /\ unit.calls = 3
  /\ unit.delay = delay
  /\ unit.slept = <<[num |-> 20, den |-> 1], [num |-> 100, den |-> 2]>>

\* C14: an invocation that raises an error other than RetryableError ends
\* the call at once with that same error: no sleep and no invocation follow
\* it; when it is the first invocation, the call made exactly one.
C14_OthersPropagate ==
  (/\ unit.op = "retry"
   /\ unit.calls > 0
   /\ unit.script[unit.calls] \notin {"ok", "RetryableError"}) =>
    /\ unit.status = "raised"
    /\ unit.error = Raised(unit.script[unit.calls], unit.calls)
    /\ Len(unit.slept) = unit.calls - 1
    /\ ~ENABLED wrapper
    /\ unit.script[1] # "RetryableError" => unit.calls = 1 /\ unit.slept = <<>>

\* a NotFoundError of the first invocation with three attempts allowed
C14_Witness ==
  /\ unit.op = "retry"
  /\ unit.max_attempts = 3
  /\ unit.status = "raised"
  /\ unit.error = Raised("NotFoundError", 1)
  /\ unit.calls = 1

\* C15: when all max_attempts (>= 1) invocations raise RetryableError, the
\* call raises the RetryableError of the last invocation.
C15_LastErrorRaised ==
  (/\ unit.op = "retry"
   /\ unit.max_attempts >= 1
   /\ unit.status # "running"
   /\ \A i \in 1..unit.max_attempts : unit.script[i] = "RetryableError") =>
    /\ unit.status = "raised"
    /\ unit.error = Raised("RetryableError", unit.max_attempts)
    /\ unit.calls = unit.max_attempts

\* the third of three failed invocations gave the error raised
C15_Witness ==
  /\ unit.op = "retry"
  /\ unit.max_attempts = 3
  /\ unit.status = "raised"
  /\ unit.error = Raised("RetryableError", 3)

\* C16: for every status other than 403 and 429 the handler gives the
\* outcome of the table: 200 returns the body, 404 raises NotFoundError
\* carrying the login, 408, 500 and 504 raise RetryableError, every other
\* status raises APIRequestError.
C16_StatusTable ==
  (/\ unit.op = "handle"
   /\ unit.done
   /\ unit.response.status \notin {403, 429}) =>
    CASE unit.response.status = 200 ->
           /\ unit.result.kind = "ok"
           /\ unit.result.body = unit.response.body
      [] unit.response.status = 404 ->
           /\ unit.result.kind = "NotFoundError"
           /\ unit.result.resource = unit.contributor
      [] unit.response.status \in {408, 500, 504} ->
           unit.result.kind = "RetryableError"
      [] OTHER ->
           /\ unit.result.kind = "APIRequestError"
           /\ unit.result.status_code = unit.response.status

\* a 408 handled for bob
C16_Witness ==
  /\ unit.op = "handle"
  /\ unit.done
  /\ unit.contributor = "bob"
  /\ unit.response.status = 408
  /\ unit.result.kind = "RetryableError"

\* C17: for every P(bot) in [0, 1], predict gives Bot iff P >= 0.5 and Human
\* otherwise, and a confidence that is 2 * |P - 0.5| rounded to 3 decimals
\* (the multiple of 0.001 nearest to it, the even one on a tie), hence in
\* [0, 1]; P = 0.5 gives (Bot, 0.0).
C17_PredictRule ==
  (unit.op = "predict" /\ unit.done) =>
    LET twice == IF 2 * unit.p >= PScale THEN 2 * unit.p - PScale
                                         ELSE PScale - 2 * unit.p
        off == unit.confidence * PScale - 1000 * twice
    IN /\ unit.user_type = "Bot" <=> 2 * unit.p >= PScale
       /\ unit.user_type \in {"Bot", "Human"}
       /\ 2 * off <= PScale /\ 2 * off >= -PScale
       /\ (2 * off = PScale \/ 2 * off = -PScale) => unit.confidence % 2 = 0
       /\ unit.confidence >= 0 /\ unit.confidence <= 1000
       /\ 2 * unit.p = PScale =>
            unit.user_type = "Bot" /\ unit.confidence = 0

\* P = 0.5: Bot with confidence 0.0
C17_Witness ==
  /\ unit.op = "predict"
  /\ unit.done
  /\ 2 * unit.p = PScale
  /\ unit.user_type = "Bot"
  /\ unit.confidence = 0

\* C18: for a list of a single activity, every emitted aggregate of DCA,
\* DCAT and DAAR is 0 and none is NaN.
C18_SingleActivityZeros ==
  (/\ unit.op = "features"
   /\ unit.stage = "returned"
   /\ Len(unit.activity_sequences) = 1) =>
    \A f \in {"DCA", "DCAT", "DAAR"} :
      \A st \in FEATURE_CONFIG[f] :
        ~unit.row[f][st].nan /\ unit.row[f][st].num = 0

\* C19: construction of the feature extractor raises ValueError, and no
\* feature is computed, exactly when the activities carry two or more
\* logins; with one login or an empty list it succeeds.
C19_OneContributor ==
  (unit.op = "features" /\ unit.stage # "new") =>
    LET logins == { unit.activity_sequences[i].contributor :
                      i \in DOMAIN unit.activity_sequences }
    IN /\ Cardinality(logins) >= 2 =>
            /\ unit.stage = "ValueError"
            /\ ~unit.computed
            /\ ~ENABLED compute_features
       /\ Cardinality(logins) <= 1 =>
            unit.stage \in {"constructed", "returned", "KeyError"}

\* two activities of two logins
C19_Witness ==
  /\ unit.op = "features"
  /\ unit.stage = "ValueError"
  /\ Len(unit.activity_sequences) = 2
  /\ unit.activity_sequences[1].contributor # unit.activity_sequences[2].contributor

\* C20: when the mapper gives no activity, predict_user_type returns
\* (username, "Unknown", "-") with no features, and neither the feature
\* extractor nor the classifier is invoked.
C20_NoActivities ==
  (/\ unit.op = "pipeline"
   /\ unit.activities = <<>>
   /\ unit.at # "called") =>
    /\ unit.at = "returned"
    /\ unit.result = ContributorResult(unit.username, "Unknown", NoConfidence,
                                       NoFeatures)
    /\ unit.calls = <<"compute_activity_sequences">>
    /\ ~ENABLED PipelineNext

\* the call returned after the mapper alone had run
C20_Witness ==
  /\ unit.op = "pipeline"
  /\ unit.at = "returned"
  /\ unit.activities = <<>>
  /\ unit.result.user_type = "Unknown"
  /\ Len(unit.calls) = 1

(* ------------------- C22..C24: the rate-limit branch ------------------- *)

\* a handled 403 or 429
RateLimited ==
  /\ unit.op = "handle"
  /\ unit.done
  /\ unit.response.status \in {403, 429}

\* C22: a 403 or 429 without Retry-After whose X-RateLimit-Remaining is 0,
\* delivered as the int 0 or as the string "0", raises
\* RateLimitExceededError with the reset instant of X-RateLimit-Reset, and
\* not RetryableError.
C22_ExhaustedQuota ==
  (/\ RateLimited
   /\ unit.response.retry_after = NoHeader
   /\ unit.response.remaining \in {IntHeader(0), StrHeader(0)}) =>
    /\ unit.result.kind = "RateLimitExceededError"
    /\ unit.result.reset = unit.response.reset_in

\* C23: a 403 or 429 with a Retry-After header raises
\* RateLimitExceededError whose reset is now + Retry-After seconds, whatever
\* the other headers, the API key and the reason phrase are.
C23_RetryAfter ==
  (/\ RateLimited
   /\ unit.response.retry_after # NoHeader) =>
    /\ unit.result.kind = "RateLimitExceededError"
    /\ unit.result.reset = unit.response.retry_after.v

\* a 429 with Retry-After: 1 and an exhausted quota, handled with an API key
C23_Witness ==
  /\ RateLimited
  /\ unit.response.status = 429
  /\ unit.response.retry_after = StrHeader(1)
  /\ unit.response.remaining = IntHeader(0)
  /\ unit.key
  /\ unit.result = handled(unit.contributor, TRUE, unit.response)
  /\ unit.result.reset = 1

\* C24: a 403 or 429 with neither a Retry-After header nor an exhausted
\* quota raises RateLimitExceededError with unknown reset when there is no
\* API key and the reason phrase mentions "rate limit", and otherwise
\* RetryableError, which the retry wrapper catches.
C24_SecondaryLimit ==
  (/\ RateLimited
   /\ unit.response.retry_after = NoHeader
   /\ unit.response.remaining \in {NoHeader, StrHeader(5)}) =>
    IF ~unit.key /\ unit.response.rate_reason
      THEN /\ unit.result.kind = "RateLimitExceededError"
           /\ unit.result.reset = NoReset
      ELSE /\ unit.result.kind = "RetryableError"
           /\ wrapper_caught(unit.result.kind)

\* a 403 with 5 requests remaining and a key: RetryableError
C24_Witness ==
  /\ RateLimited
  /\ unit.response.status = 403
  /\ unit.response.retry_after = NoHeader
  /\ unit.response.remaining = StrHeader(5)
  /\ unit.response.rate_reason
  /\ unit.key
  /\ unit.result.kind = "RetryableError"

(* ------------------ C25: the retries of the event source --------------- *)

\* the event source has just slept in a retry wrapper and is about to send
\* the request again
Retrying ==
  /\ pc \in {"query_user_type", "query_events"}
  /\ obs.last = "RetryableError"
  /\ stack # <<>>

\* C25 as stated: under persistent 408/500/504 answers query_user_type and
\* _query_event_page make 3 requests, separated by sleeps of 10 s and then
\* 20 s (20 and 40 half-seconds).
C25_SleepsTenTwenty ==
  Retrying =>
    LET attempt == stack[Len(stack)].attempt
    IN /\ attempt \in 1..2
       /\ obs.slept = <<IF attempt = 1 THEN 20 ELSE 40>>

\* C25 amended: the two methods are wrapped with max_attempts = 3,
\* delay = 10 s and backoff = 2.5: they make at most 3 requests in one
\* wrapper call, separated by sleeps of 10 s and then 25 s (20 and 50
\* half-seconds).
C25_SleepsTenTwentyFive ==
  Retrying =>
    LET attempt == stack[Len(stack)].attempt
    IN /\ attempt \in 1..2
       /\ obs.slept = <<IF attempt = 1 THEN 20 ELSE 50>>

\* the second failed request for a page of events: 25 s of sleep before the
\* third
C25_Witness ==
  /\ pc = "query_events"
  /\ obs.last = "RetryableError"
  /\ stack = <<[attempt |-> 2, current_delay |-> 125]>>
  /\ obs.slept = <<50>>

(* ------------------ C26: what the pipeline is given -------------------- *)

C27_Gini ==
  (unit.op = "gini" /\ unit.done) =>
    LET x == unit.x
        zero == ~unit.gini.nan /\ unit.gini.num = 0
    IN /\ (\A i \in DOMAIN x : x[i].num = 0) => zero
       /\ (\A i, j \in DOMAIN x : x[i] = x[j]) => zero
       /\ Cardinality({i \in DOMAIN x : x[i].num # 0}) = 1 => zero
       /\ unit.gini.nan = unit.gini_scaled.nan
       /\ unit.gini.num * unit.gini_scaled.den =
            unit.gini_scaled.num * unit.gini.den

\* the series 0, 1, 5 scaled by 3: Gini 4/12 before, 12/36 after
C27_Witness ==
  /\ unit.op = "gini"
  /\ unit.done
  /\ unit.x = <<Val(0), Val(1), Val(5)>>
  /\ unit.c = 3
  /\ unit.gini = Frac(4, 12)
  /\ unit.gini_scaled = Frac(12, 36)

(* ---------------- C21, C28: the event source's operations -------------- *)

\* C21 as stated: whatever the upstream answers, every call of
\* query_user_type and every iteration of query_events comes to an end (it
\* returns, is exhausted or dropped, or raises).
C21_AlwaysCompletes == <>(unit.status \in Over)

\* C21 amended: a call of query_user_type always comes to an end; an
\* iteration of query_events comes to an end when no_wait is set, and
\* whenever the upstream answers only finitely many of its requests with a
\* rate limit the source waits for.
C21_CompletesUnlessLimitedForever ==
  /\ unit.call = "query_user_type" => <>(unit.status \in Over)
  /\ unit.no_wait => <>(unit.status \in Over)
  /\ (<>[](unit.last # "wait")) => <>(unit.status \in Over)

\* an iteration of query_events that waited for a rate limit, was retried
\* after a 500 and is exhausted after its third page
C21_Witness ==
  /\ unit.op = "source"
  /\ unit.call = "query_events"
  /\ unit.status = "exhausted"
  /\ unit.waits >= 1
  /\ unit.retryable >= 1
  /\ unit.page = 3

\* C28 as stated: in one call of query_user_type at most max_attempts = 3
\* requests are answered with a retryable outcome before RetryableError
\* reaches the caller, also when rate-limit waits occur between them.
C28_RetryBudget ==
  (unit.op = "source" /\ unit.call = "query_user_type") =>
    unit.retryable <= max_attempts

\* C28 amended: in one call of query_user_type that made no rate-limit
\* wait at most max_attempts requests are answered with a retryable
\* outcome; every wait is followed by a nested call with a retry budget of
\* its own, and a call that made w waits sees at most
\* max_attempts + (max_attempts - 1) * w such answers.
C28_RetryBudgetPerWait ==
  (unit.op = "source" /\ unit.call = "query_user_type") =>
    /\ unit.waits = 0 => unit.retryable <= max_attempts
    /\ unit.retryable <= max_attempts + (max_attempts - 1) * unit.waits

\* one wait, then three 500s in the nested call and two more in the outer
\* one: RetryableError reaches the caller after five retryable answers
C28_Witness ==
  /\ unit.op = "source"
  /\ unit.call = "query_user_type"
  /\ unit.status = "raised"
  /\ unit.error = "RetryableError"
  /\ unit.waits = 1
  /\ unit.retryable = 5

(* ---------------- C29, C30: the row and the groupings ------------------ *)

\* C29: for a non-empty activity list of one contributor with well-formed
\* dates, compute_features returns a row of 38 values none of which is NaN,
\* also when the activities are all in one repository or all of one kind.
C29_NoNaN ==
  (/\ unit.op = "features"
   /\ unit.stage = "returned"
   /\ \A i \in DOMAIN unit.activity_df : unit.activity_df[i].date # NaT) =>
    /\ Cardinality(FEATURE_NAMES) = 38
    /\ \A name \in FEATURE_NAMES : ~unit.row[name[1]][name[2]].nan

\* the activities_count of the runs sum to NA, and so do the counts
Conserved ==
  LET NA == unit.row["NA"][""].num
  IN /\ NA = Len(unit.activity_sequences)
     /\ Sum(activities_count(unit.series.runs_repository)) = NA
     /\ Sum(activities_count(unit.series.runs_activity)) = NA
     /\ Sum(unit.series.NAR) = NA
     /\ Sum(unit.series.NAT) = NA

\* the runs whose time_to_switch is undefined
Undefined(runs) == { i \in DOMAIN runs : runs[i].time_to_switch.nan }

\* C30 as stated: for every non-empty activity list the runs of consecutive
\* activities (by repository and by kind) and the counts per repository and
\* per kind sum to NA, and exactly the last run has an undefined
\* time_to_switch.
C30_GroupsConserve ==
  (unit.op = "features" /\ unit.stage = "returned") =>
    /\ Conserved
    /\ Undefined(unit.series.runs_repository) =
         {Len(unit.series.runs_repository)}
    /\ Undefined(unit.series.runs_activity) = {Len(unit.series.runs_activity)}

\* C30 amended: the runs and the counts sum to NA for every non-empty
\* list, and the last run has an undefined time_to_switch; it is the only
\* one when every date is well-formed.
C30_GroupsConserveWellFormed ==
  (unit.op = "features" /\ unit.stage = "returned") =>
    /\ Conserved
    /\ Len(unit.series.runs_repository) \in Undefined(unit.series.runs_repository)
    /\ Len(unit.series.runs_activity) \in Undefined(unit.series.runs_activity)
    /\ (\A i \in DOMAIN unit.activity_df : unit.activity_df[i].date # NaT) =>
         /\ Cardinality(Undefined(unit.series.runs_repository)) = 1
         /\ Cardinality(Undefined(unit.series.runs_activity)) = 1

\* two pushes to repository 1 and, three hours later, an issue in
\* repository 2: runs of 2 and 1 activities, the first one 3 hours before
\* the switch
C30_Witness ==
  /\ unit.op = "features"
  /\ unit.stage = "returned"
  /\ Len(unit.activity_df) = 3
  /\ activities_count(unit.series.runs_repository) = <<Val(2), Val(1)>>
  /\ time_to_switch(unit.series.runs_activity) = <<Val(3), NaN>>
  /\ unit.series.NAR = <<Val(2), Val(1)>>
  /\ unit.series.NAT = <<Val(2), Val(1)>>

====
